---- MODULE Spec2Model ----
(***************************************************************************)
(* Model of the lookup endpoint of track-rank                              *)
(* (src/app/api/spotify/route.ts): one POST request, the token exchange,   *)
(* the three branches, getTrackDetails, getAlbumTracks, getArtistTopTracks *)
(* and the upstream calls they issue; of the search endpoint               *)
(* (src/app/api/spotify/search/route.ts) and of debouncedSearch of the     *)
(* page (src/app/page.tsx), which calls one endpoint or the other.         *)
(*                                                                         *)
(* Strings the code inspects (the url, the ids) are sequences of           *)
(* one-character strings.  A JavaScript `undefined` is a sentinel value of *)
(* the same shape as the defined values (NoAlbum, NoTrack, "" for a        *)
(* missing id, 0 for a missing HTTP status).                               *)
(***************************************************************************)
EXTENDS Naturals, Integers, Sequences, FiniteSets, Bags, TLC

VARIABLES
    cfg,          \* TRUE iff SPOTIFY_CLIENT_ID and SPOTIFY_CLIENT_SECRET are set
    body,         \* the request body handed to POST
    world,        \* what the catalog provider holds (fixed during a request)
    pc,           \* where POST is suspended
    accessToken,  \* POST's accessToken
    track,        \* POST's `track` (track branch)
    albumResp,    \* POST's albumResponse.data (album branch)
    tA,           \* the running getAlbumTracks call
    tT,           \* the running getArtistTopTracks call
    tD,           \* the running getArtistDetails call
    calls,        \* bag of the upstream calls issued so far
    firstFailure, \* the first upstream call failure of the request, or NoErr
    failedIn,     \* the function whose upstream call failed first, or NoSite
    response,     \* the response POST returned, or NoResponse
    searchReq,    \* the search endpoint's GET request (search/route.ts)
    ui,           \* the state of the page (page.tsx)
    tokens        \* the tokens the provider issued and those earlier requests used

vars == <<cfg, body, world, pc, accessToken, track, albumResp, tA, tT, tD, calls,
          firstFailure, failedIn, response, searchReq, ui, tokens>>

----------------------------------------------------------------------------
(* Bounds of the model *)

\* largest single-page album whose per-track fan-out is explored
MaxStubs == 3
\* largest single-page album explored in the track branch, where the album's
\* fan-out runs in parallel with the artist search
MaxTrackStubs == 2
\* the album-page loop is followed while its offset is below this
MaxLoopOffset == 150

(* Program constants *)

AlbumPageLimit == 50
SearchLimit == 50
SearchOffsetCeiling == 200
TopTracksCap == 100
DefaultTotalTracks == 1

----------------------------------------------------------------------------
(* Characters and ids *)

Lower == {"a","b","c","d","e","f","g","h","i","j","k","l","m",
          "n","o","p","q","r","s","t","u","v","w","x","y","z"}
Upper == {"A","B","C","D","E","F","G","H","I","J","K","L","M",
          "N","O","P","Q","R","S","T","U","V","W","X","Y","Z"}
Digits == {"0","1","2","3","4","5","6","7","8","9"}

\* the character class [a-zA-Z0-9] of the three patterns
IdAlphabet == Lower \cup Upper \cup Digits

DigitChar == <<"0","1","2","3","4","5","6","7","8","9">>

\* id of the n-th track of the album, and of the n-th track of the search index
Tid(n) == <<"t", DigitChar[((n \div 100) % 10) + 1], DigitChar[((n \div 10) % 10) + 1], DigitChar[(n % 10) + 1]>>
Sid(n) == <<"s", DigitChar[((n \div 100) % 10) + 1], DigitChar[((n \div 10) % 10) + 1], DigitChar[(n % 10) + 1]>>

AlbumId == <<"L","1">>
ArtistId == <<"a","1">>
OtherArtistId == <<"a","2">>
UnlistedTrackId == Tid(0)

Min(a, b) == IF a < b THEN a ELSE b

Max(a, b) == IF a > b THEN a ELSE b

----------------------------------------------------------------------------
(* The request body and the url patterns *)

Str_https == <<"h","t","t","p","s",":","/","/","o","p","e","n",".","s","p","o","t","i","f","y",".","c","o","m","/">>
Str_artist == <<"a","r","t","i","s","t","/">>
Str_album == <<"a","l","b","u","m","/">>
Str_track == <<"t","r","a","c","k","/">>

\* values the `url` field of the parsed body can hold
UrlUndefined == [type |-> "undefined", str |-> <<>>]
UrlNumber == [type |-> "number", str |-> <<>>]
UrlString(s) == [type |-> "string", str |-> s]

\* JavaScript truthiness of `url` (`!url` is its negation); UrlNumber is a non-zero number
Truthy(url) == \/ url.type = "number"
               \/ url.type = "string" /\ url.str # <<>>

\* the positions at which `word` followed by one id character occurs in str
MatchStarts(str, word) ==
    {p \in 1..Len(str) :
        /\ p + Len(word) <= Len(str)
        /\ SubSeq(str, p, p + Len(word) - 1) = word
        /\ str[p + Len(word)] \in IdAlphabet}

\* mutant: the capture group is lazy and takes one character
Match_Lazy(str, word) ==
    IF MatchStarts(str, word) = {} THEN <<>>
    ELSE LET p == CHOOSE x \in MatchStarts(str, word) : \A y \in MatchStarts(str, word) : x <= y
         IN <<str[p + Len(word)]>>

\* str.match(/word([a-zA-Z0-9]+)/)[1]: the greedy capture of the leftmost match,
\* <<>> when match() returns null
Match(str, word) ==
    IF MatchStarts(str, word) = {} THEN <<>>
    ELSE LET p == CHOOSE x \in MatchStarts(str, word) : \A y \in MatchStarts(str, word) : x <= y
             q == p + Len(word)
             e == CHOOSE x \in q..Len(str) :
                     /\ \A k \in q..x : str[k] \in IdAlphabet
                     /\ (x = Len(str) \/ str[x + 1] \notin IdAlphabet)
         IN SubSeq(str, q, e)

artistMatch(url) == Match(url.str, Str_artist)
albumMatch(url) == Match(url.str, Str_album)
trackMatch(url) == Match(url.str, Str_track)

\* mutant: the branch is that of the pattern matching leftmost in the string
Branch_Leftmost(url) ==
    LET first(word) == IF MatchStarts(url.str, word) = {} THEN Len(url.str) + 1
                       ELSE CHOOSE x \in MatchStarts(url.str, word) :
                                \A y \in MatchStarts(url.str, word) : x <= y
        a == first(Str_artist)
        l == first(Str_album)
        t == first(Str_track)
    IN IF a <= Len(url.str) /\ a <= l /\ a <= t THEN "artist"
       ELSE IF l <= Len(url.str) /\ l <= t THEN "album"
       ELSE IF t <= Len(url.str) THEN "track"
       ELSE "invalid"

\* the branch POST takes for a string url
Branch(url) ==
    IF artistMatch(url) # <<>> THEN "artist"
    ELSE IF albumMatch(url) # <<>> THEN "album"
    ELSE IF trackMatch(url) # <<>> THEN "track"
    ELSE "invalid"

\* the request bodies explored
Bodies ==
    { [json |-> FALSE, url |-> UrlUndefined],                    \* body is not JSON
      [json |-> TRUE, url |-> UrlUndefined],                     \* {}
      [json |-> TRUE, url |-> UrlNumber],                        \* {"url": 7}
      [json |-> TRUE, url |-> UrlString(<<>>)],                  \* {"url": ""}
      [json |-> TRUE, url |-> UrlString(<<"h","e","y">>)],
      [json |-> TRUE, url |-> UrlString(Str_https \o Str_track \o Tid(1))],
      [json |-> TRUE, url |-> UrlString(Str_https \o Str_track \o UnlistedTrackId)],
      [json |-> TRUE, url |-> UrlString(Str_https \o Str_album \o AlbumId)],
      [json |-> TRUE, url |-> UrlString(Str_https \o Str_artist \o ArtistId)] }

----------------------------------------------------------------------------
(* The catalog provider *)

NoAlbum == [id |-> <<>>, total_tracks |-> 0, images |-> "undefined"]
NoTrack == [id |-> <<>>, artists |-> <<>>, popularity |-> 0, album |-> NoAlbum]

Artist1 == [id |-> ArtistId, name |-> "N"]
\* a different artist of the same name
Artist2 == [id |-> OtherArtistId, name |-> "N"]
\* an artist object without an id
ArtistNoId == [id |-> <<>>, name |-> "N"]

\* popularities of the album's tracks, by track number: a tie and an inversion
PopBase == <<60, 90, 60>>

BigAlbum == AlbumPageLimit + 1

Variants == {"noAlbum", "noArtists", "noArtistId"}

\* S: stubs the provider lists for the album, T: its declared total_tracks,
\* variant: shape of track 1's detail.  The albums of at most maxS tracks, an
\* album listed short of its declared total, a single whose track detail is
\* incomplete, and an album of more than one page.
Worlds(maxS) ==
    { [S |-> s, T |-> s, variant |-> "normal"] : s \in 1..maxS }
    \cup { [S |-> 1, T |-> 2, variant |-> "normal"] }
    \cup { [S |-> 1, T |-> 1, variant |-> v] : v \in Variants }
    \cup { [S |-> BigAlbum, T |-> BigAlbum, variant |-> "normal"] }

DefaultWorld == [S |-> 1, T |-> 1, variant |-> "normal"]

Popularity(n) == IF n = 0 THEN 50 ELSE PopBase[((n - 1) % 3) + 1]

TrackNo(id) == CHOOSE n \in 0..BigAlbum : Tid(n) = id

\* GET /tracks/{id}: response.data
ProviderTrack(w, id) ==
    LET n == TrackNo(id)
        v == IF n = 1 THEN w.variant ELSE "normal"
    IN [id |-> id,
        artists |-> CASE v = "noArtists" -> <<>>
                      [] v = "noArtistId" -> <<ArtistNoId>>
                      [] OTHER -> <<Artist1>>,
        popularity |-> Popularity(n),
        album |-> IF v = "noAlbum" THEN NoAlbum
                  ELSE [id |-> AlbumId, total_tracks |-> 0, images |-> "thumb"]]

\* GET /albums/{id}: response.data
ProviderAlbum(w) == [id |-> AlbumId, total_tracks |-> w.T, images |-> "cover"]

\* GET /albums/{id}/tracks?limit=50&offset=o: response.data
ProviderAlbumPage(w, offset) ==
    LET n == Max(0, Min(AlbumPageLimit, w.S - offset))
    IN [items |-> [k \in 1..n |-> [id |-> Tid(offset + k)]],
        next |-> offset + AlbumPageLimit < w.S]

\* GET /artists/{id}: response.data
ProviderArtist == [id |-> ArtistId, name |-> "N"]

\* the search pages the provider may answer with
PageKinds == {"empty", "mixed", "short"}

SearchTrack(id, artists, pop) ==
    [id |-> id, artists |-> artists, popularity |-> pop,
     album |-> [id |-> AlbumId, total_tracks |-> 0, images |-> "thumb"]]

\* GET /search?type=track&limit=50&offset=o&q=artist:"N": response.data.tracks.items.
\* mixed: a full page whose last track only features the artist; short: a track
\* of a namesake featuring the artist, track 1 of the album, and one more track
ProviderSearchPage(kind, offset) ==
    CASE kind = "empty" -> <<>>
      [] kind = "mixed" ->
            [k \in 1..SearchLimit |->
                SearchTrack(Sid(offset + k),
                            IF k = SearchLimit THEN <<Artist2, Artist1>> ELSE <<Artist1>>,
                            ((offset + k) * 37) % 101)]
      [] OTHER ->
            << SearchTrack(Sid(0), <<Artist2, Artist1>>, 99),
               SearchTrack(Tid(1), <<Artist1>>, Popularity(1)),
               SearchTrack(Sid(999), <<Artist1>>, 70) >>

\* how an upstream call can fail: an HTTP error response (status and
\* data.error.message), or no response at all (status 0, message "")
Failures == { [status |-> 404, message |-> "Not found."],
              [status |-> 429, message |-> ""],
              [status |-> 0, message |-> ""] }

----------------------------------------------------------------------------
(* Values built by the handler *)

Ok == [status |-> 200, message |-> ""]
NoErr == [status |-> -1, message |-> ""]
\* an exception thrown by the handler's own code: it has no `response`
Thrown == [status |-> 0, message |-> ""]

Outcomes == {Ok} \cup Failures

NoToken == <<>>
\* tokenResponse.data.access_token of the n-th exchange the provider granted
TokenOf(n) == <<"tok", n>>
Token == TokenOf(1)

\* `request`: the number of the request being served; `issued`: how many
\* tokens the provider has granted; `spent`: the tokens earlier requests held
NoTokens == [request |-> 1, issued |-> 0, spent |-> {}]

\* mutant: the Authorization header is left out
CallWith_NoBearer(token, ep, id, offset) == [ep |-> ep, id |-> id, offset |-> offset, token |-> NoToken]

\* a catalog call with the header Authorization: Bearer ${token}
CallWith(token, ep, id, offset) == [ep |-> ep, id |-> id, offset |-> offset, token |-> token]

\* a catalog call with the accessToken POST holds
Call(ep, id, offset) == CallWith(accessToken, ep, id, offset)
TokenCall == [ep |-> "token", id |-> <<>>, offset |-> 0, token |-> NoToken]

\* `albumResponse?.data.total_tracks || 1`
TotalTracksOrDefault(n) == IF n = 0 THEN DefaultTotalTracks ELSE n

\* the object getTrackDetails returns for response.data = raw and
\* albumResponse.data = alb (NoAlbum when no album call was made)
ProcessedTrack(raw, alb) ==
    [id |-> raw.id,
     artists |-> [k \in 1..Len(raw.artists) |-> [name |-> raw.artists[k].name, id |-> raw.artists[k].id]],
     popularity |-> raw.popularity,
     album |-> IF raw.album # NoAlbum
               THEN [id |-> raw.album.id,
                     total_tracks |-> TotalTracksOrDefault(alb.total_tracks),
                     images |-> IF alb # NoAlbum THEN alb.images ELSE raw.album.images]
               ELSE NoAlbum]

\* the object the map callback of getAlbumTracks returns
WithAlbumImages(t, images) ==
    [t EXCEPT !.album = IF t.album # NoAlbum THEN [t.album EXCEPT !.images = images] ELSE NoAlbum]

\* the object the map callback of getArtistTopTracks returns
FromSearchTrack(t) ==
    [id |-> t.id, artists |-> t.artists, popularity |-> t.popularity,
     album |-> IF t.album # NoAlbum
               THEN [id |-> t.album.id, total_tracks |-> 1, images |-> t.album.images]
               ELSE NoAlbum]

\* mutant: the comparator is a.popularity - b.popularity
SortByPopularity_Ascending(s) ==
    LET Before(i, j) == \/ s[i].popularity < s[j].popularity
                        \/ s[i].popularity = s[j].popularity /\ i < j
        order == SortSeq([i \in 1..Len(s) |-> i], Before)
    IN [k \in 1..Len(s) |-> s[order[k]]]

\* mutant: the list is returned in the order it was built
SortByPopularity_Unsorted(s) == s

\* mutant: the sort is not stable, equal popularities come out in reverse
SortByPopularity_TiesReversed(s) ==
    LET Before(i, j) == \/ s[i].popularity > s[j].popularity
                        \/ s[i].popularity = s[j].popularity /\ i > j
        order == SortSeq([i \in 1..Len(s) |-> i], Before)
    IN [k \in 1..Len(s) |-> s[order[k]]]

\* tracks.sort((a, b) => b.popularity - a.popularity): a stable sort, descending.
\* The places 1..Len(s) are sorted under the total order "sorts before": higher
\* popularity first and, among equal popularities, the earlier place first.
SortByPopularity(s) ==
    LET Before(i, j) == \/ s[i].popularity > s[j].popularity
                        \/ s[i].popularity = s[j].popularity /\ i < j
        order == SortSeq([i \in 1..Len(s) |-> i], Before)
    IN [k \in 1..Len(s) |-> s[order[k]]]

\* mutant: a track passes when the artist is any of its artists
FilterPrimary_AnyArtist(s, artistId) ==
    LET IsListed(t) == \E k \in DOMAIN t.artists : t.artists[k].id = artistId
    IN SelectSeq(s, IsListed)

\* newTracks.filter(track => track.artists[0].id === artistId)
FilterPrimary(s, artistId) ==
    LET IsPrimary(t) == t.artists[1].id = artistId
    IN SelectSeq(s, IsPrimary)

\* .slice(0, n)
Slice(s, n) == SubSeq(s, 1, Min(n, Len(s)))

\* mutant: the index is counted from 1
findIndex_OneBased(s, id) ==
    IF \E i \in 1..Len(s) : s[i].id = id
    THEN CHOOSE i \in 1..Len(s) : s[i].id = id /\ \A j \in 1..(i - 1) : s[j].id # id
    ELSE -1

\* s.findIndex(t => t.id === id), 0-based, -1 when there is none
findIndex(s, id) ==
    IF \E i \in 1..Len(s) : s[i].id = id
    THEN (CHOOSE i \in 1..Len(s) : s[i].id = id /\ \A j \in 1..(i - 1) : s[j].id # id) - 1
    ELSE -1

\* mutant: the list is cut to 100 before it is sorted
TopTracksResult_SliceFirst(primary) == SortByPopularity(Slice([k \in 1..Len(primary) |-> FromSearchTrack(primary[k])], TopTracksCap))

\* the tail of getArtistTopTracks: map, sort, slice
TopTracksResult(primary) == Slice(SortByPopularity([k \in 1..Len(primary) |-> FromSearchTrack(primary[k])]), TopTracksCap)

----------------------------------------------------------------------------
(* Responses *)

NoAlbumDetails == [id |-> <<>>, total_tracks |-> 0, images |-> "undefined"]
NoArtist == [id |-> <<>>, name |-> ""]

\* a response body: `keys` are the keys of the JSON object
EmptyBody ==
    [keys |-> {}, error |-> "", track |-> NoTrack, albumTracks |-> <<>>, trackRank |-> 0,
     totalTracks |-> 0, artistTopTracks |-> <<>>, artistTrackRank |-> 0,
     album |-> NoAlbumDetails, artist |-> NoArtist, topTracks |-> <<>>]

NoResponse == [status |-> 0, body |-> EmptyBody]

ErrorJson(msg, status) ==
    [status |-> status, body |-> [EmptyBody EXCEPT !.keys = {"error"}, !.error = msg]]

\* mutant: the upstream status is not mirrored
CatchResponse_Always500(err) ==
    ErrorJson(IF err.message # "" THEN err.message ELSE "Failed to fetch data", 500)

\* the catch block of POST
CatchResponse(err) ==
    ErrorJson(IF err.message # "" THEN err.message ELSE "Failed to fetch data",
              IF err.status # 0 THEN err.status ELSE 500)

----------------------------------------------------------------------------
(* The three resolver calls a request can have running *)

IdleA == [pc |-> "idle", albumId |-> <<>>, images |-> "", firstNext |-> FALSE, lastNext |-> FALSE,
          allTracks |-> <<>>, offset |-> 0, subs |-> <<>>, tracks |-> <<>>,
          value |-> <<>>, err |-> NoErr]
\* newLen: the length of newTracks of the page last received, -1 before the first
IdleT == [pc |-> "idle", artistId |-> <<>>, name |-> "", primaryArtistTracks |-> <<>>,
          offset |-> 0, newLen |-> -1, value |-> <<>>, err |-> NoErr]
IdleD == [pc |-> "idle", value |-> NoArtist, err |-> NoErr]

OneCall(c) == SetToBag({c})

\* one call per element of the sequence cs
CallsOf(cs) ==
    [c \in {cs[i] : i \in DOMAIN cs} |-> Cardinality({i \in DOMAIN cs : cs[i] = c})]

\* getAlbumTracks up to its first await
StartAlbumTracks(albumId) == [IdleA EXCEPT !.pc = "detail", !.albumId = albumId]

\* getArtistTopTracks and getArtistDetails up to their first await
StartTopTracks(artistId) == [IdleT EXCEPT !.pc = "detail", !.artistId = artistId]
StartArtistDetails == [IdleD EXCEPT !.pc = "detail"]

\* Promise.all(allTracks.map(...)) and, once every callback has returned, the sort
FanOut(a) ==
    IF a.allTracks = <<>>
    THEN [a EXCEPT !.pc = "ok", !.value = <<>>]
    ELSE [a EXCEPT !.pc = "fanout",
                   !.subs = [i \in DOMAIN a.allTracks |-> "track"],
                   !.tracks = [i \in DOMAIN a.allTracks |-> NoTrack]]

\* the test of `while (response.data.next)`: response is the first page
AlbumLoopContinues(a) == a.firstNext

\* getAlbumTracks from the loop test to the next await
AlbumLoop(a) == IF AlbumLoopContinues(a) THEN [a EXCEPT !.pc = "loop"] ELSE FanOut(a)

AlbumLoopCalls(a) ==
    IF AlbumLoopContinues(a)
    THEN OneCall(Call("albumTracks", a.albumId, a.offset))
    ELSE CallsOf([i \in DOMAIN a.allTracks |-> Call("track", a.allTracks[i].id, 0)])

\* mutant: the results are collected in the order the callbacks return
SubDone_Append(a, i, t) ==
    LET subs == [a.subs EXCEPT ![i] = "done"]
        n == Cardinality({k \in DOMAIN a.subs : a.subs[k] = "done"})
        tracks == [a.tracks EXCEPT ![n + 1] = WithAlbumImages(t, a.images)]
    IN IF a.pc = "fanout" /\ \A k \in DOMAIN subs : subs[k] = "done"
       THEN [a EXCEPT !.subs = subs, !.tracks = tracks, !.pc = "ok",
                      !.value = SortByPopularity(tracks)]
       ELSE [a EXCEPT !.subs = subs, !.tracks = tracks]

\* the map callback of getAlbumTracks returns t for stub i
SubDone(a, i, t) ==
    LET subs == [a.subs EXCEPT ![i] = "done"]
        tracks == [a.tracks EXCEPT ![i] = WithAlbumImages(t, a.images)]
    IN IF a.pc = "fanout" /\ \A k \in DOMAIN subs : subs[k] = "done"
       THEN [a EXCEPT !.subs = subs, !.tracks = tracks, !.pc = "ok",
                      !.value = SortByPopularity(tracks)]
       ELSE [a EXCEPT !.subs = subs, !.tracks = tracks]

\* the map callback for stub i throws: Promise.all rejects with the first rejection
SubFail(a, i, f) ==
    IF a.pc = "fanout"
    THEN [a EXCEPT !.subs[i] = "failed", !.pc = "err", !.err = f]
    ELSE [a EXCEPT !.subs[i] = "failed"]

\* mutant: the length test is <=
SearchLoopContinues_Inclusive(t) ==
    Len(t.primaryArtistTracks) <= TopTracksCap /\ t.offset < SearchOffsetCeiling

\* the test of `while (primaryArtistTracks.length < 100 && offset < 200)`
SearchLoopContinues(t) ==
    Len(t.primaryArtistTracks) < TopTracksCap /\ t.offset < SearchOffsetCeiling

\* getArtistTopTracks from the loop test to the next await or the return
SearchLoop(t) ==
    IF SearchLoopContinues(t) THEN [t EXCEPT !.pc = "search"]
    ELSE [t EXCEPT !.pc = "ok", !.value = TopTracksResult(t.primaryArtistTracks)]

\* the search call getArtistTopTracks issued on reaching state t
SearchCalls(t) ==
    IF t.pc = "search" THEN OneCall(Call("search", t.artistId, t.offset)) ELSE EmptyBag

\* the body of the search loop for the page newTracks
OnSearchPage(t, newTracks) ==
    IF Len(newTracks) = 0
    THEN [t EXCEPT !.pc = "ok", !.newLen = 0, !.value = TopTracksResult(t.primaryArtistTracks)]
    ELSE SearchLoop([t EXCEPT
            !.newLen = Len(newTracks),
            !.primaryArtistTracks = t.primaryArtistTracks \o FilterPrimary(newTracks, t.artistId),
            !.offset = t.offset + SearchLimit])

----------------------------------------------------------------------------
(* The results of the three branches *)

trackId == trackMatch(body.url)

ArtistResult(d, t) ==
    [status |-> 200,
     body |-> [EmptyBody EXCEPT !.keys = {"artist", "topTracks"},
                                !.artist = d.value, !.topTracks = t.value]]

\* mutant: the album's fields are spread into the result instead of nested
AlbumResult_Spread(a) ==
    [status |-> 200,
     body |-> [EmptyBody EXCEPT !.keys = {"id", "name", "artists", "release_date",
                                         "total_tracks", "images", "albumTracks"},
                                !.album = albumResp, !.albumTracks = a.value]]

AlbumResult(a) ==
    [status |-> 200,
     body |-> [EmptyBody EXCEPT !.keys = {"album", "albumTracks"},
                                !.album = albumResp, !.albumTracks = a.value]]

\* mutant: the artist fields are attached whatever the album
IsSingle_Always(t) == TRUE

\* the condition under which the two artist fields are defined
IsSingle(t) == t.album.total_tracks = 1

TrackResult(a, t) ==
    [status |-> 200,
     body |-> [EmptyBody EXCEPT
        !.keys = {"track", "albumTracks", "trackRank", "totalTracks"}
                 \cup (IF IsSingle(track) THEN {"artistTopTracks", "artistTrackRank"} ELSE {}),
        !.track = track,
        !.albumTracks = a.value,
        !.trackRank = findIndex(a.value, trackId) + 1,
        !.totalTracks = Len(a.value),
        !.artistTopTracks = IF IsSingle(track) THEN t.value ELSE <<>>,
        !.artistTrackRank = IF IsSingle(track) THEN findIndex(t.value, trackId) + 1 ELSE 0]]

Respond(r) == pc' = "done" /\ response' = r

Rejected(old, new) == old.pc # "err" /\ new.pc = "err"

\* POST resumes from its pending await when the step that turned the running
\* calls into a, t, d settled it: Promise.all rejects with the first rejection
\* and resolves when every call has returned
Settle(a, t, d) ==
    CASE pc = "artistAll" ->
            IF Rejected(tD, d) THEN Respond(CatchResponse(d.err))
            ELSE IF Rejected(tT, t) THEN Respond(CatchResponse(t.err))
            ELSE IF d.pc = "ok" /\ t.pc = "ok" THEN Respond(ArtistResult(d, t))
            ELSE UNCHANGED <<pc, response>>
      [] pc = "albumTracks" ->
            IF Rejected(tA, a) THEN Respond(CatchResponse(a.err))
            ELSE IF a.pc = "ok" THEN Respond(AlbumResult(a))
            ELSE UNCHANGED <<pc, response>>
      [] pc = "trackAll" ->
            IF Rejected(tA, a) THEN Respond(CatchResponse(a.err))
            ELSE IF Rejected(tT, t) THEN Respond(CatchResponse(t.err))
            ELSE IF a.pc = "ok" /\ t.pc = "ok" THEN Respond(TrackResult(a, t))
            ELSE UNCHANGED <<pc, response>>
      [] OTHER -> UNCHANGED <<pc, response>>

----------------------------------------------------------------------------
(* The search endpoint and the page: values *)

NoSite == "none"

\* the search endpoint's response: JSON of the provider's results, or of an error
NoSearchResponse == [status |-> 0, error |-> "", results |-> <<>>]
IdleSearch == [pc |-> "idle", query |-> <<>>, response |-> NoSearchResponse]

\* what the provider's search returns for q: abstracted to the query it answers
ProviderSearchResults(q) == <<q>>

SearchErrorJson(msg, status) == [status |-> status, error |-> msg, results |-> <<>>]

\* the catch block of GET
SearchCatchResponse(err) ==
    SearchErrorJson(IF err.message # "" THEN err.message ELSE "Failed to search Spotify",
                    IF err.status # 0 THEN err.status ELSE 500)

NoData == [keys |-> {}]
NoResults == <<>>

\* the useState values of Home, `timer` (the debounce timer is armed),
\* `pending` (the request debouncedSearch awaits from the endpoints modelled
\* here), `awaits` (the requests its handlers await when the endpoints are
\* abstracted to their answers), `sent` (how many of those were sent) and
\* `okLookup` (the latest sent of the lookups that have returned a result)
IdlePage ==
    [searchQuery |-> <<>>, data |-> NoData, loading |-> FALSE, error |-> "",
     searchResults |-> NoResults, isSearching |-> FALSE, showDropdown |-> FALSE,
     timer |-> FALSE, pending |-> "none",
     awaits |-> {}, sent |-> 0, okLookup |-> 0]

PageFrame == UNCHANGED <<searchReq, ui>>

----------------------------------------------------------------------------
(* The request *)

Init ==
    /\ cfg \in BOOLEAN
    /\ body \in Bodies
    /\ world \in (IF cfg /\ body.json /\ Branch(body.url) = "album" THEN Worlds(MaxStubs)
                  ELSE IF cfg /\ body.json /\ Branch(body.url) = "track" THEN Worlds(MaxTrackStubs)
                  ELSE {DefaultWorld})
    /\ pc = "start"
    /\ accessToken = NoToken
    /\ track = NoTrack
    /\ albumResp = NoAlbumDetails
    /\ tA = IdleA
    /\ tT = IdleT
    /\ tD = IdleD
    /\ calls = EmptyBag
    /\ firstFailure = NoErr
    /\ failedIn = NoSite
    /\ response = NoResponse
    /\ searchReq = IdleSearch
    /\ tokens = NoTokens
    /\ ui = IdlePage

\* the upstream call of this step ended as o
Upstream(o, site) ==
    /\ firstFailure' = IF firstFailure = NoErr /\ o # Ok THEN o ELSE firstFailure
    /\ failedIn' = IF firstFailure = NoErr /\ o # Ok THEN site ELSE failedIn

\* mutant: only an absent url is rejected
UrlMissing_UndefinedOnly(url) == url.type = "undefined"

\* `!url`
UrlMissing(url) == ~Truthy(url)

\* POST up to the await of the token exchange: request.json(), the url test,
\* and getAccessToken up to axios.post
POST_Begin ==
    /\ pc = "start"
    /\ IF ~body.json
       THEN Respond(CatchResponse(Thrown)) /\ UNCHANGED calls
       ELSE IF UrlMissing(body.url)
       THEN Respond(ErrorJson("URL is required", 400)) /\ UNCHANGED calls
       ELSE IF ~cfg
       THEN Respond(CatchResponse(Thrown)) /\ UNCHANGED calls
       ELSE /\ pc' = "token"
            /\ calls' = calls (+) OneCall(TokenCall)
            /\ UNCHANGED response
    /\ UNCHANGED <<cfg, tokens, body, world, accessToken, track, albumResp, tA, tT, tD, firstFailure, failedIn>>
    /\ PageFrame

\* the token exchange returns: the three matches and the first await of the branch
POST_Token(o) ==
    /\ pc = "token"
    /\ Upstream(o, "getAccessToken")
    /\ IF o # Ok
       THEN /\ Respond(CatchResponse(o))
            /\ UNCHANGED <<accessToken, tokens, tA, tT, tD, calls>>
       ELSE /\ accessToken' = TokenOf(tokens.issued + 1)
            /\ tokens' = [tokens EXCEPT !.issued = @ + 1]
            /\ IF body.url.type # "string"
               THEN \* url.match is not a function
                    /\ Respond(CatchResponse(Thrown))
                    /\ UNCHANGED <<tA, tT, tD, calls>>
               ELSE CASE Branch(body.url) = "artist" ->
                            /\ pc' = "artistAll"
                            /\ tD' = StartArtistDetails
                            /\ tT' = StartTopTracks(artistMatch(body.url))
                            /\ calls' = calls (+) OneCall(CallWith(accessToken', "artist", artistMatch(body.url), 0))
                                              (+) OneCall(CallWith(accessToken', "artist", artistMatch(body.url), 0))
                            /\ UNCHANGED <<tA, response>>
                      [] Branch(body.url) = "album" ->
                            /\ pc' = "albumDetail"
                            /\ calls' = calls (+) OneCall(CallWith(accessToken', "album", albumMatch(body.url), 0))
                            /\ UNCHANGED <<tA, tT, tD, response>>
                      [] Branch(body.url) = "track" ->
                            /\ pc' = "getTrack"
                            /\ calls' = calls (+) OneCall(CallWith(accessToken', "track", trackId, 0))
                            /\ UNCHANGED <<tA, tT, tD, response>>
                      [] OTHER ->
                            /\ Respond(ErrorJson("Invalid Spotify URL. Please provide a valid artist, album, or track URL.", 400))
                            /\ UNCHANGED <<tA, tT, tD, calls>>
    /\ UNCHANGED <<cfg, body, world, track, albumResp>> /\ PageFrame

\* mutant: a failure of the album detail call is not thrown
AlbumDetailResolved_Always(o) == TRUE

\* `await axios.get(.../albums/{id})` of the album branch resumes only when
\* the call succeeded, and throws otherwise
AlbumDetailResolved(o) == o = Ok

\* album branch: the album detail call of POST returns
POST_AlbumDetail(o) ==
    /\ pc = "albumDetail"
    /\ Upstream(o, "POST")
    /\ IF ~AlbumDetailResolved(o)
       THEN /\ Respond(CatchResponse(o))
            /\ UNCHANGED <<albumResp, tA, calls>>
       ELSE /\ albumResp' = ProviderAlbum(world)
            /\ tA' = StartAlbumTracks(albumMatch(body.url))
            /\ calls' = calls (+) OneCall(Call("album", albumMatch(body.url), 0))
            /\ pc' = "albumTracks"
            /\ UNCHANGED response
    /\ UNCHANGED <<cfg, tokens, body, world, accessToken, track, tT, tD>> /\ PageFrame

\* mutant: the album of the track is not tested
TrackHasNoAlbum_Never(t) == FALSE

\* `!track.album`
TrackHasNoAlbum(t) == t.album = NoAlbum

\* track branch: POST from the return of getTrackDetails (t) to Promise.all
AfterTrackDetails(t) ==
    /\ track' = t
    /\ IF TrackHasNoAlbum(t)
       THEN /\ Respond(ErrorJson("Track album information not found", 404))
            /\ UNCHANGED <<tA, tT, calls>>
       ELSE IF t.artists = <<>>
       THEN \* track.artists[0] is undefined
            /\ Respond(CatchResponse(Thrown))
            /\ UNCHANGED <<tA, tT, calls>>
       ELSE IF t.artists[1].id = <<>>
       THEN /\ Respond(ErrorJson("Artist information not found", 404))
            /\ UNCHANGED <<tA, tT, calls>>
       ELSE /\ pc' = "trackAll"
            /\ tA' = StartAlbumTracks(t.album.id)
            /\ tT' = StartTopTracks(t.artists[1].id)
            /\ calls' = calls (+) OneCall(Call("album", t.album.id, 0))
                              (+) OneCall(Call("artist", t.artists[1].id, 0))
            /\ UNCHANGED response

\* track branch: the track call of getTrackDetails(trackId) returns
POST_Track(o) ==
    /\ pc = "getTrack"
    /\ Upstream(o, "getTrackDetails")
    /\ IF o # Ok
       THEN /\ Respond(CatchResponse(o))
            /\ UNCHANGED <<track, tA, tT, calls>>
       ELSE LET raw == ProviderTrack(world, trackId)
            IN IF raw.album # NoAlbum
               THEN /\ pc' = "getTrackAlbum"
                    /\ calls' = calls (+) OneCall(Call("album", raw.album.id, 0))
                    /\ UNCHANGED <<track, tA, tT, response>>
               ELSE AfterTrackDetails(ProcessedTrack(raw, NoAlbum))
    /\ UNCHANGED <<cfg, tokens, body, world, accessToken, albumResp, tD>> /\ PageFrame

\* track branch: the album call of getTrackDetails(trackId) returns
POST_TrackAlbum(o) ==
    /\ pc = "getTrackAlbum"
    /\ Upstream(o, "getTrackDetails")
    /\ IF o # Ok
       THEN /\ Respond(CatchResponse(o))
            /\ UNCHANGED <<track, tA, tT, calls>>
       ELSE AfterTrackDetails(ProcessedTrack(ProviderTrack(world, trackId), ProviderAlbum(world)))
    /\ UNCHANGED <<cfg, tokens, body, world, accessToken, albumResp, tD>> /\ PageFrame

----------------------------------------------------------------------------
(* getAlbumTracks *)

TaskFrame == UNCHANGED <<cfg, tokens, body, world, accessToken, track, albumResp, searchReq, ui>>

\* the album detail call returns
GAT_Album(o) ==
    /\ tA.pc = "detail"
    /\ Upstream(o, "getAlbumTracks")
    /\ tA' = IF o = Ok THEN [tA EXCEPT !.pc = "page1", !.images = ProviderAlbum(world).images]
             ELSE [tA EXCEPT !.pc = "err", !.err = o]
    /\ calls' = IF o = Ok THEN calls (+) OneCall(Call("albumTracks", tA.albumId, 0)) ELSE calls
    /\ Settle(tA', tT, tD)
    /\ UNCHANGED <<tT, tD>> /\ TaskFrame

\* mutant: the first page is appended to the list a second time
AfterFirstPage_Reappend(a, page) ==
    [a EXCEPT !.allTracks = page.items \o page.items, !.offset = AlbumPageLimit,
              !.firstNext = page.next, !.lastNext = page.next]

\* getAlbumTracks after the first page `page` arrived
AfterFirstPage(a, page) ==
    [a EXCEPT !.allTracks = page.items, !.offset = AlbumPageLimit,
              !.firstNext = page.next, !.lastNext = page.next]

\* the first page of stubs returns
GAT_FirstPage(o) ==
    /\ tA.pc = "page1"
    /\ Upstream(o, "getAlbumTracks")
    /\ LET a == AfterFirstPage(tA, ProviderAlbumPage(world, 0))
       IN /\ tA' = IF o = Ok THEN AlbumLoop(a) ELSE [tA EXCEPT !.pc = "err", !.err = o]
          /\ calls' = IF o = Ok THEN calls (+) AlbumLoopCalls(a) ELSE calls
    /\ Settle(tA', tT, tD)
    /\ UNCHANGED <<tT, tD>> /\ TaskFrame

\* the body of the page loop for the page `page`
AfterNextPage(a, page) ==
    [a EXCEPT !.allTracks = a.allTracks \o page.items, !.offset = a.offset + AlbumPageLimit,
              !.lastNext = page.next]

\* a page requested by the loop returns
GAT_NextPage(o) ==
    /\ tA.pc = "loop"
    /\ tA.offset < MaxLoopOffset
    /\ Upstream(o, "getAlbumTracks")
    /\ LET a == AfterNextPage(tA, ProviderAlbumPage(world, tA.offset))
       IN /\ tA' = IF o = Ok THEN AlbumLoop(a) ELSE [tA EXCEPT !.pc = "err", !.err = o]
          /\ calls' = IF o = Ok THEN calls (+) AlbumLoopCalls(a) ELSE calls
    /\ Settle(tA', tT, tD)
    /\ UNCHANGED <<tT, tD>> /\ TaskFrame

\* the track call of getTrackDetails for stub i returns
GAT_SubTrack(i, o) ==
    /\ i \in DOMAIN tA.subs
    /\ tA.subs[i] = "track"
    /\ Upstream(o, "getTrackDetails")
    /\ LET raw == ProviderTrack(world, tA.allTracks[i].id)
       IN IF o # Ok
          THEN tA' = SubFail(tA, i, o) /\ UNCHANGED calls
          ELSE IF raw.album # NoAlbum
          THEN /\ tA' = [tA EXCEPT !.subs[i] = "album"]
               /\ calls' = calls (+) OneCall(Call("album", raw.album.id, 0))
          ELSE tA' = SubDone(tA, i, ProcessedTrack(raw, NoAlbum)) /\ UNCHANGED calls
    /\ Settle(tA', tT, tD)
    /\ UNCHANGED <<tT, tD>> /\ TaskFrame

\* the album call of getTrackDetails for stub i returns
GAT_SubAlbum(i, o) ==
    /\ i \in DOMAIN tA.subs
    /\ tA.subs[i] = "album"
    /\ Upstream(o, "getTrackDetails")
    /\ tA' = IF o # Ok THEN SubFail(tA, i, o)
             ELSE SubDone(tA, i, ProcessedTrack(ProviderTrack(world, tA.allTracks[i].id),
                                                ProviderAlbum(world)))
    /\ Settle(tA', tT, tD)
    /\ UNCHANGED <<tT, tD, calls>> /\ TaskFrame

----------------------------------------------------------------------------
(* getArtistTopTracks and getArtistDetails *)

\* the artist call of getArtistTopTracks returns
GTT_Artist(o) ==
    /\ tT.pc = "detail"
    /\ Upstream(o, "getArtistTopTracks")
    /\ tT' = IF o = Ok THEN SearchLoop([tT EXCEPT !.name = ProviderArtist.name])
             ELSE [tT EXCEPT !.pc = "err", !.err = o]
    /\ calls' = calls (+) SearchCalls(tT')
    /\ Settle(tA, tT', tD)
    /\ UNCHANGED <<tA, tD>> /\ TaskFrame

\* a search page returns
GTT_Search(o, kind) ==
    /\ tT.pc = "search"
    /\ Upstream(o, "getArtistTopTracks")
    /\ tT' = IF o = Ok THEN OnSearchPage(tT, ProviderSearchPage(kind, tT.offset))
             ELSE [tT EXCEPT !.pc = "err", !.err = o]
    /\ calls' = calls (+) SearchCalls(tT')
    /\ Settle(tA, tT', tD)
    /\ UNCHANGED <<tA, tD>> /\ TaskFrame

\* the artist call of getArtistDetails returns
GAD_Artist(o) ==
    /\ tD.pc = "detail"
    /\ Upstream(o, "getArtistDetails")
    /\ tD' = IF o = Ok THEN [tD EXCEPT !.pc = "ok", !.value = ProviderArtist]
             ELSE [tD EXCEPT !.pc = "err", !.err = o]
    /\ Settle(tA, tT, tD')
    /\ UNCHANGED <<tA, tT, calls>> /\ TaskFrame

----------------------------------------------------------------------------

Next ==
    \/ POST_Begin
    \/ \E o \in Outcomes : POST_Token(o)
    \/ \E o \in Outcomes : POST_AlbumDetail(o)
    \/ \E o \in Outcomes : POST_Track(o)
    \/ \E o \in Outcomes : POST_TrackAlbum(o)
    \/ \E o \in Outcomes : GAT_Album(o)
    \/ \E o \in Outcomes : GAT_FirstPage(o)
    \/ \E o \in Outcomes : GAT_NextPage(o)
    \/ \E o \in Outcomes, i \in 1..MaxStubs : GAT_SubTrack(i, o)
    \/ \E o \in Outcomes, i \in 1..MaxStubs : GAT_SubAlbum(i, o)
    \/ \E o \in Outcomes : GTT_Artist(o)
    \/ \E o \in Outcomes, kind \in PageKinds : GTT_Search(o, kind)
    \/ \E o \in Outcomes : GAD_Artist(o)

Spec == Init /\ [][Next]_vars

----------------------------------------------------------------------------
(* Requests one after the other: POST keeps nothing from one call to the next *)

\* requests served in one session
MaxSessionRequests == 2

\* the catalogs explored for a body
SessionWorlds(b) ==
    IF b.json /\ Branch(b.url) = "album"
    THEN {DefaultWorld, [S |-> BigAlbum, T |-> BigAlbum, variant |-> "normal"]}
    ELSE {DefaultWorld}

SessionInit ==
    /\ cfg \in BOOLEAN
    /\ body \in Bodies
    /\ world \in SessionWorlds(body)
    /\ pc = "start"
    /\ accessToken = NoToken
    /\ track = NoTrack
    /\ albumResp = NoAlbumDetails
    /\ tA = IdleA
    /\ tT = IdleT
    /\ tD = IdleD
    /\ calls = EmptyBag
    /\ firstFailure = NoErr
    /\ failedIn = NoSite
    /\ response = NoResponse
    /\ searchReq = IdleSearch
    /\ tokens = NoTokens
    /\ ui = IdlePage

\* the tokens the calls of the request carried or POST held
TokensHeld == ({c.token : c \in BagToSet(calls)} \cup {accessToken}) \ {NoToken}

\* POST is called again after it returned: every variable of the call is new
\* (accessToken is a const of the call, route.ts has no module state); the
\* call log starts over and the tokens seen so far are remembered
NewRequest ==
    /\ pc = "done"
    /\ tokens.request < MaxSessionRequests
    /\ body' \in Bodies
    /\ world' \in SessionWorlds(body')
    /\ pc' = "start"
    /\ accessToken' = NoToken
    /\ track' = NoTrack
    /\ albumResp' = NoAlbumDetails
    /\ tA' = IdleA
    /\ tT' = IdleT
    /\ tD' = IdleD
    /\ calls' = EmptyBag
    /\ firstFailure' = NoErr
    /\ failedIn' = NoSite
    /\ response' = NoResponse
    /\ tokens' = [tokens EXCEPT !.request = @ + 1, !.spent = @ \cup TokensHeld]
    /\ UNCHANGED <<cfg, searchReq, ui>>

SessionNext ==
    \/ Next
    \/ NewRequest

SessionSpec == SessionInit /\ [][SessionNext]_vars

----------------------------------------------------------------------------
(* The search endpoint (search/route.ts) *)

SearchCall(token, q) == CallWith(token, "searchAll", q, 0)

\* GET up to the await of the token exchange; the credentials are not tested,
\* the Authorization header is built from whatever the environment holds
GET_Begin ==
    /\ searchReq.pc = "start"
    /\ IF searchReq.query = <<>>
       THEN /\ searchReq' = [searchReq EXCEPT !.pc = "done",
                                !.response = SearchErrorJson("Search query is required", 400)]
            /\ UNCHANGED calls
       ELSE /\ searchReq' = [searchReq EXCEPT !.pc = "token"]
            /\ calls' = calls (+) OneCall(TokenCall)
    /\ UNCHANGED <<cfg, tokens, body, world, pc, accessToken, track, albumResp, tA, tT, tD,
                   firstFailure, failedIn, response, ui>>

\* the token exchange of GET returns; the provider grants a token only to
\* configured credentials
GET_Token(o) ==
    /\ searchReq.pc = "token"
    /\ cfg \/ o # Ok
    /\ IF o # Ok
       THEN /\ searchReq' = [searchReq EXCEPT !.pc = "done", !.response = SearchCatchResponse(o)]
            /\ UNCHANGED <<calls, tokens>>
       ELSE /\ searchReq' = [searchReq EXCEPT !.pc = "search"]
            /\ tokens' = [tokens EXCEPT !.issued = @ + 1]
            /\ calls' = calls (+) OneCall(SearchCall(TokenOf(tokens.issued + 1), searchReq.query))
    /\ UNCHANGED <<cfg, body, world, pc, accessToken, track, albumResp, tA, tT, tD,
                   firstFailure, failedIn, response, ui>>

\* the search call of GET returns
GET_Search(o) ==
    /\ searchReq.pc = "search"
    /\ searchReq' = [searchReq EXCEPT !.pc = "done",
                        !.response = IF o = Ok
                                     THEN [status |-> 200, error |-> "",
                                           results |-> ProviderSearchResults(searchReq.query)]
                                     ELSE SearchCatchResponse(o)]
    /\ UNCHANGED <<cfg, tokens, body, world, pc, accessToken, track, albumResp, tA, tT, tD, calls,
                   firstFailure, failedIn, response, ui>>

----------------------------------------------------------------------------
(* The page (page.tsx): one input typed into the search box *)

Str_spotifyCom == <<"s","p","o","t","i","f","y",".","c","o","m">>
Str_spotifyLink == <<"s","p","o","t","i","f","y",".","l","i","n","k">>
Str_playlist == <<"p","l","a","y","l","i","s","t","/">>

\* s.includes(w)
Includes(s, w) == \E p \in 1..Len(s) : p + Len(w) - 1 <= Len(s) /\ SubSeq(s, p, p + Len(w) - 1) = w

isSpotifyUrl(query) == Includes(query, Str_spotifyCom) \/ Includes(query, Str_spotifyLink)

\* query.trim()
Trim(query) ==
    LET inked == {k \in 1..Len(query) : query[k] # " "}
    IN IF inked = {} THEN <<>>
       ELSE SubSeq(query, CHOOSE k \in inked : \A j \in inked : k <= j,
                          CHOOSE k \in inked : \A j \in inked : k >= j)

\* the inputs explored: none of them holds an artist/, album/ or track/ segment
\* followed by an id
Queries ==
    { <<>>,
      <<" ">>,
      <<"h","e","y">>,
      <<" ","h","e","y"," ">>,
      <<"h","e","y"," ","y","a">>,
      Str_track,
      Str_spotifyCom,
      Str_spotifyLink \o <<"/","x","1">>,
      Str_https,
      Str_https \o Str_playlist \o <<"p","1">>,
      Str_https \o Str_track,
      Str_https \o Str_album \o <<"?","a">> }

NoBody == [json |-> FALSE, url |-> UrlUndefined]

PageInit ==
    /\ cfg \in BOOLEAN
    /\ body = NoBody
    /\ world = DefaultWorld
    /\ pc = "idle"
    /\ accessToken = NoToken
    /\ track = NoTrack
    /\ albumResp = NoAlbumDetails
    /\ tA = IdleA
    /\ tT = IdleT
    /\ tD = IdleD
    /\ calls = EmptyBag
    /\ firstFailure = NoErr
    /\ failedIn = NoSite
    /\ response = NoResponse
    /\ searchReq = IdleSearch
    /\ tokens = NoTokens
    /\ \E q \in Queries :
          \* onChange ran and the effect armed the debounce timer
          ui = [IdlePage EXCEPT !.searchQuery = q, !.showDropdown = TRUE, !.timer = TRUE]

\* the debounce timer fires: debouncedSearch(searchQuery) up to its await
Page_DebouncedSearch ==
    /\ ui.timer
    /\ LET query == ui.searchQuery
       IN IF Trim(query) = <<>>
          THEN /\ ui' = [ui EXCEPT !.timer = FALSE, !.searchResults = NoResults]
               /\ UNCHANGED <<body, pc, searchReq>>
          ELSE IF isSpotifyUrl(query)
          THEN /\ ui' = [ui EXCEPT !.timer = FALSE, !.loading = TRUE, !.showDropdown = FALSE,
                                   !.pending = "lookup"]
               /\ body' = [json |-> TRUE, url |-> UrlString(query)]
               /\ pc' = "start"
               /\ UNCHANGED searchReq
          ELSE /\ ui' = [ui EXCEPT !.timer = FALSE, !.isSearching = TRUE, !.pending = "search"]
               /\ searchReq' = [searchReq EXCEPT !.pc = "start", !.query = query]
               /\ UNCHANGED <<body, pc>>
    /\ UNCHANGED <<cfg, tokens, world, accessToken, track, albumResp, tA, tT, tD, calls,
                   firstFailure, failedIn, response>>

\* the POST of debouncedSearch settles
Page_LookupSettled ==
    /\ ui.pending = "lookup"
    /\ pc = "done"
    /\ ui' = IF response.status = 200
             THEN [ui EXCEPT !.pending = "none", !.loading = FALSE,
                             !.data = response.body, !.searchResults = NoResults]
             ELSE [ui EXCEPT !.pending = "none", !.loading = FALSE,
                             !.error = IF response.body.error # "" THEN response.body.error
                                       ELSE "Failed to fetch data. Please try again."]
    /\ UNCHANGED <<cfg, tokens, body, world, pc, accessToken, track, albumResp, tA, tT, tD, calls,
                   firstFailure, failedIn, response, searchReq>>

\* the GET of debouncedSearch settles
Page_SearchSettled ==
    /\ ui.pending = "search"
    /\ searchReq.pc = "done"
    /\ ui' = IF searchReq.response.status = 200
             THEN [ui EXCEPT !.pending = "none", !.isSearching = FALSE,
                             !.searchResults = searchReq.response.results, !.data = NoData]
             ELSE [ui EXCEPT !.pending = "none", !.isSearching = FALSE,
                             !.error = IF searchReq.response.error # "" THEN searchReq.response.error
                                       ELSE "Failed to search. Please try again."]
    /\ UNCHANGED <<cfg, tokens, body, world, pc, accessToken, track, albumResp, tA, tT, tD, calls,
                   firstFailure, failedIn, response, searchReq>>

PageNext ==
    \/ Page_DebouncedSearch
    \/ POST_Begin
    \/ \E o \in Outcomes : POST_Token(o)
    \/ Page_LookupSettled
    \/ GET_Begin
    \/ \E o \in Outcomes : GET_Token(o)
    \/ \E o \in Outcomes : GET_Search(o)
    \/ Page_SearchSettled

PageSpec == PageInit /\ [][PageNext]_vars

----------------------------------------------------------------------------
(* Classification of urls: POST up to the first call of the branch it takes *)

Kinds == {"track", "album", "artist"}

Segment(type) ==
    CASE type = "track" -> Str_track
      [] type = "album" -> Str_album
      [] type = "artist" -> Str_artist

\* the url handleResultClick posts: `https://open.spotify.com/${type}/${id}`
ResultUrl(type, id) == Str_https \o Segment(type) \o id

\* ids over [a-zA-Z0-9], some spelling a segment word
UrlIds == { Tid(1), <<"a","l","b","u","m">>, <<"A","9","z">>, <<"7">> }

UrlPrefixes == { Str_https, Str_https \o <<"i","n","t","l","-","d","e","/">> }

\* what follows the id: nothing, a slash, query parameters, a fragment
UrlSuffixes ==
    { <<>>,
      <<"/">>,
      <<"?","s","i","=","a","b","1">>,
      <<"/","?","s","i","=","a","b","1">>,
      <<"?","c","=">> \o Str_album,
      <<"?","c","=">> \o Str_album \o AlbumId,
      <<"?","c","=">> \o Str_artist \o ArtistId,
      <<"#">> \o Str_artist \o ArtistId \o <<"/">> }

TrackUrls == { p \o Str_track \o i \o x : p \in UrlPrefixes, i \in UrlIds, x \in UrlSuffixes }

ResultUrls == { ResultUrl(k, i) : k \in Kinds, i \in UrlIds }

\* the id a segment of each kind carries in the urls with several segments
SegmentId(kind) ==
    CASE kind = "track" -> Tid(1)
      [] kind = "album" -> AlbumId
      [] kind = "artist" -> ArtistId

\* what separates two segments: a slash, or the start of a query parameter
Separators == { <<"/">>, <<"?","c","=">> }

\* a url with a segment of each kind in ks, in the order of ks
SegmentsUrl(ks, sep) ==
    Str_https \o Segment(ks[1]) \o SegmentId(ks[1])
              \o sep \o Segment(ks[2]) \o SegmentId(ks[2])
              \o (IF Len(ks) = 3 THEN sep \o Segment(ks[3]) \o SegmentId(ks[3]) ELSE <<>>)

\* the orders in which two or three different kinds can follow one another
KindOrders ==
    { ks \in UNION { [1..n -> Kinds] : n \in 2..3 } :
        \A i, j \in DOMAIN ks : i # j => ks[i] # ks[j] }

SeveralSegmentUrls == { SegmentsUrl(ks, sep) : ks \in KindOrders, sep \in Separators }

ClassifyInit ==
    /\ cfg = TRUE
    /\ body \in { [json |-> TRUE, url |-> UrlString(u)] :
                      u \in TrackUrls \cup ResultUrls \cup SeveralSegmentUrls }
    /\ world = DefaultWorld
    /\ pc = "start"
    /\ accessToken = NoToken
    /\ track = NoTrack
    /\ albumResp = NoAlbumDetails
    /\ tA = IdleA
    /\ tT = IdleT
    /\ tD = IdleD
    /\ calls = EmptyBag
    /\ firstFailure = NoErr
    /\ failedIn = NoSite
    /\ response = NoResponse
    /\ searchReq = IdleSearch
    /\ tokens = NoTokens
    /\ ui = IdlePage

ClassifyNext ==
    \/ POST_Begin
    \/ \E o \in Outcomes : POST_Token(o)

ClassifySpec == ClassifyInit /\ [][ClassifyNext]_vars

----------------------------------------------------------------------------
(* The page with overlapping requests: the endpoints are abstracted to the  *)
(* answer each request gets                                                 *)

\* requests the page sends in one session
MaxRequests == 3

\* the endpoint answers with a result or with an error message
Answers == {"ok", "error"}

UiQueries ==
    { <<>>,
      <<"h","e","y">>,
      ResultUrl("track", Tid(1)),
      ResultUrl("album", AlbumId) }

\* the result entries the dropdown offers
ClickTargets == { [type |-> "artist", id |-> ArtistId], [type |-> "track", id |-> Tid(1)] }

Request(n, kind, query) == [n |-> n, kind |-> kind, query |-> query]

\* response.data of the lookup r
LookupData(r) == [keys |-> {"result"}, request |-> r.n, url |-> r.query]

EndpointFrame ==
    UNCHANGED <<cfg, tokens, body, world, pc, accessToken, track, albumResp, tA, tT, tD, calls,
                firstFailure, failedIn, response, searchReq>>

UiInit ==
    /\ cfg = TRUE
    /\ body = NoBody
    /\ world = DefaultWorld
    /\ pc = "idle"
    /\ accessToken = NoToken
    /\ track = NoTrack
    /\ albumResp = NoAlbumDetails
    /\ tA = IdleA
    /\ tT = IdleT
    /\ tD = IdleD
    /\ calls = EmptyBag
    /\ firstFailure = NoErr
    /\ failedIn = NoSite
    /\ response = NoResponse
    /\ searchReq = IdleSearch
    /\ tokens = NoTokens
    \* the effect ran debouncedSearch('') on mount
    /\ ui = [IdlePage EXCEPT !.timer = TRUE]

\* onChange of the input, and the effect on searchQuery re-arming the timer
UI_OnChange(q) ==
    /\ q # ui.searchQuery
    /\ ui' = [ui EXCEPT !.searchQuery = q, !.showDropdown = TRUE, !.timer = TRUE]
    /\ EndpointFrame

\* the debounce timer fires: debouncedSearch(searchQuery) up to its await
UI_DebouncedSearch ==
    /\ ui.timer
    /\ LET query == ui.searchQuery
           n == ui.sent + 1
       IN IF Trim(query) = <<>>
          THEN ui' = [ui EXCEPT !.timer = FALSE, !.searchResults = NoResults]
          ELSE /\ ui.sent < MaxRequests
               /\ IF isSpotifyUrl(query)
                  THEN ui' = [ui EXCEPT !.timer = FALSE, !.loading = TRUE, !.showDropdown = FALSE,
                                        !.sent = n,
                                        !.awaits = @ \cup {Request(n, "lookup", query)}]
                  ELSE ui' = [ui EXCEPT !.timer = FALSE, !.isSearching = TRUE,
                                        !.sent = n,
                                        !.awaits = @ \cup {Request(n, "search", query)}]
    /\ EndpointFrame

\* a click on an entry of the dropdown: handleResultClick up to its await
UI_ResultClick(type, id) ==
    /\ ui.showDropdown /\ ui.searchResults # NoResults
    /\ ~isSpotifyUrl(ui.searchQuery) /\ ~ui.loading
    /\ ui.sent < MaxRequests
    /\ ui' = [ui EXCEPT !.loading = TRUE, !.showDropdown = FALSE,
                        !.sent = @ + 1,
                        !.awaits = @ \cup {Request(ui.sent + 1, "lookup", ResultUrl(type, id))}]
    /\ EndpointFrame

\* try / catch / finally after the POST of r (debouncedSearch and handleResultClick alike)
AfterLookup(u, r, answer) ==
    IF answer = "ok"
    THEN [u EXCEPT !.data = LookupData(r), !.searchResults = NoResults, !.loading = FALSE,
                   !.okLookup = IF r.n > @ THEN r.n ELSE @]
    ELSE [u EXCEPT !.error = "Failed to fetch data", !.loading = FALSE]

\* mutant: a search result leaves the lookup result in place
AfterSearch_KeepData(u, r, answer) ==
    IF answer = "ok"
    THEN [u EXCEPT !.searchResults = ProviderSearchResults(r.query), !.isSearching = FALSE]
    ELSE [u EXCEPT !.error = "Failed to search Spotify", !.isSearching = FALSE]

\* try / catch / finally after the GET of r
AfterSearch(u, r, answer) ==
    IF answer = "ok"
    THEN [u EXCEPT !.searchResults = ProviderSearchResults(r.query), !.data = NoData,
                   !.isSearching = FALSE]
    ELSE [u EXCEPT !.error = "Failed to search Spotify", !.isSearching = FALSE]

\* the POST of the lookup r settles
UI_LookupReturns(r, answer) ==
    /\ r \in ui.awaits /\ r.kind = "lookup"
    /\ ui' = AfterLookup([ui EXCEPT !.awaits = @ \ {r}], r, answer)
    /\ EndpointFrame

\* the GET of the search r settles
UI_SearchReturns(r, answer) ==
    /\ r \in ui.awaits /\ r.kind = "search"
    /\ ui' = AfterSearch([ui EXCEPT !.awaits = @ \ {r}], r, answer)
    /\ EndpointFrame

\* a click on the title: resetState, and the effect on searchQuery
UI_ResetState ==
    /\ ui' = [ui EXCEPT !.searchQuery = <<>>, !.data = NoData, !.error = "",
                        !.searchResults = NoResults, !.showDropdown = FALSE, !.loading = FALSE,
                        !.timer = IF ui.searchQuery # <<>> THEN TRUE ELSE @]
    /\ EndpointFrame

\* a mousedown outside the search box
UI_ClickOutside ==
    /\ ui.showDropdown
    /\ ui' = [ui EXCEPT !.showDropdown = FALSE]
    /\ EndpointFrame

AllRequests ==
    { Request(n, kind, query) : n \in 1..(MaxRequests + 1), kind \in {"lookup", "search"},
                                query \in UiQueries \cup { ResultUrl(c.type, c.id) : c \in ClickTargets } }

UiNext ==
    \/ \E q \in UiQueries : UI_OnChange(q)
    \/ UI_DebouncedSearch
    \/ \E c \in ClickTargets : UI_ResultClick(c.type, c.id)
    \/ \E r \in AllRequests, answer \in Answers : UI_LookupReturns(r, answer)
    \/ \E r \in AllRequests, answer \in Answers : UI_SearchReturns(r, answer)
    \/ UI_ResetState
    \/ UI_ClickOutside

UiSpec == UiInit /\ [][UiNext]_vars

----------------------------------------------------------------------------
(* Properties *)

Succeeded == pc = "done" /\ response.status = 200
IsTrackResponse == Succeeded /\ "track" \in response.body.keys

\* r is the 1-based place of the first track of list whose id is id, 0 when there is none
RankIn(list, id, r) ==
    IF \A i \in DOMAIN list : list[i].id # id
    THEN r = 0
    ELSE /\ r \in 1..Len(list)
         /\ list[r].id = id
         /\ \A j \in 1..(r - 1) : list[j].id # id

Descending(list) == \A i \in 1..(Len(list) - 1) : list[i].popularity >= list[i + 1].popularity

DistinctIds(list) == \A i, j \in DOMAIN list : list[i].id = list[j].id => i = j

\* C1 (as claimed): getAlbumTracks stops paging once the provider's pagination is
\* exhausted: it has a page request of its loop pending only if the page it
\* received last reported a next cursor.
C1_StopsWhenExhausted == tA.pc = "loop" => tA.lastNext

\* C2: the list getAlbumTracks returns is no longer than the album's declared
\* total, is shorter only when the provider lists fewer stubs (then it has one
\* entry per listed stub), and holds no track twice.
C2_AlbumTracksLength ==
    tA.pc = "ok" =>
        /\ Len(tA.value) <= world.T
        /\ Len(tA.value) < world.T => Len(tA.value) = world.S
        /\ DistinctIds(tA.value)

C2_Witness == tA.pc = "ok" /\ Len(tA.value) = world.T /\ Len(tA.value) >= 2

\* C3: in a track lookup trackRank is 1 + the index of the first track of
\* albumTracks with the focal id (0 when there is none), totalTracks is the
\* length of albumTracks, and artistTrackRank, when present, is that rank over
\* artistTopTracks.
C3_TrackRank ==
    IsTrackResponse =>
        /\ RankIn(response.body.albumTracks, trackId, response.body.trackRank)
        /\ response.body.totalTracks = Len(response.body.albumTracks)
        /\ "artistTrackRank" \in response.body.keys =>
              RankIn(response.body.artistTopTracks, trackId, response.body.artistTrackRank)

C3_Witness == IsTrackResponse /\ response.body.trackRank = 2 /\ response.body.totalTracks = 2

\* C4: every track list of a successful response is in non-increasing order of popularity.
C4_SortedDescending ==
    Succeeded =>
        /\ Descending(response.body.albumTracks)
        /\ Descending(response.body.topTracks)
        /\ Descending(response.body.artistTopTracks)

\* a list the provider did not already deliver in that order
C4_Witness ==
    /\ Succeeded
    /\ Len(response.body.albumTracks) >= 2
    /\ response.body.albumTracks[1].id # Tid(1)

\* C5: a track response carries artistTopTracks and artistTrackRank exactly when
\* the focal track's album declares one track; track, albumTracks, trackRank and
\* totalTracks are always there.
C5_SingleFields ==
    IsTrackResponse =>
        /\ "artistTopTracks" \in response.body.keys <=> world.T = 1
        /\ "artistTrackRank" \in response.body.keys <=> world.T = 1
        /\ {"track", "albumTracks", "trackRank", "totalTracks"} \subseteq response.body.keys

C5_Witness ==
    /\ IsTrackResponse
    /\ world.T = 1
    /\ "artistTopTracks" \in response.body.keys
    /\ response.body.artistTrackRank >= 1

SearchCallsIssued == {c \in BagToSet(calls) : c.ep = "search"}

\* C6: search requests go to offsets 0, 50, 100, 150, each at most once; one is
\* pending only while fewer than 100 primary-artist tracks are held and its
\* offset is below 200, and never after an empty page.
C6_SearchPaging ==
    /\ \A c \in SearchCallsIssued : c.offset \in {0, 50, 100, 150} /\ CopiesIn(c, calls) = 1
    /\ tT.pc = "search" =>
          /\ Len(tT.primaryArtistTracks) < 100
          /\ tT.offset < 200
          /\ tT.newLen # 0
    /\ tT.pc = "ok" /\ tT.newLen = 0 =>
          \A c \in SearchCallsIssued : c.offset < tT.offset + SearchLimit

\* the resolver returned on holding exactly 100 tracks, offset 150 never requested
C6_Witness ==
    /\ tT.pc = "ok"
    /\ Len(tT.primaryArtistTracks) = 100
    /\ tT.offset = 150
    /\ Cardinality(SearchCallsIssued) = 3

\* C7: getArtistTopTracks returns at most 100 tracks, each with the target
\* artist as its first artist.
C7_PrimaryArtistOnly ==
    tT.pc = "ok" =>
        /\ Len(tT.value) <= 100
        /\ \A i \in DOMAIN tT.value : tT.value[i].artists[1].id = tT.artistId

\* more than 100 were held, a featuring track was among the results
C7_Witness ==
    /\ tT.pc = "ok"
    /\ Len(tT.primaryArtistTracks) > 100
    /\ Len(tT.value) = 100
    /\ tT.offset = 150

ErrorOnly(r) == r.body = [EmptyBody EXCEPT !.keys = {"error"}, !.error = r.body.error]

\* C8: once an upstream call of the request has failed, the response is an error
\* with the failed response's status (500 when it has none) and nothing but the
\* error message.
C8_FailureAborts ==
    firstFailure # NoErr =>
        /\ pc = "done"
        /\ response.status = (IF firstFailure.status # 0 THEN firstFailure.status ELSE 500)
        /\ ErrorOnly(response)
        /\ response.body.error # ""

\* a per-track fetch failed after another track of the album had been enriched
C8_Witness ==
    /\ firstFailure.status = 404
    /\ response.status = 404
    /\ \E i, j \in DOMAIN tA.subs : tA.subs[i] = "done" /\ tA.subs[j] = "failed"

EmptyUrlBody == [json |-> TRUE, url |-> UrlString(<<>>)]

\* C9: a lookup whose url is the empty string is answered 400 and issues no call.
C9_EmptyUrl400 ==
    body = EmptyUrlBody =>
        /\ calls = EmptyBag
        /\ pc \in {"start", "done"}
        /\ pc = "done" => response.status = 400 /\ ErrorOnly(response)

C9_Witness == body = EmptyUrlBody /\ pc = "done" /\ response.status = 400 /\ cfg

BadInput == ~body.json \/ body.url.type # "string" \/ Branch(body.url) = "invalid"

\* C10 (as claimed): a lookup with a missing or unparseable input ends in a 4xx
\* response (here with credentials configured and no upstream failure).
C10_BadInputIs4xx ==
    BadInput /\ cfg /\ firstFailure = NoErr /\ pc = "done" =>
        response.status \in 400..499

----------------------------------------------------------------------------

IssuedTo(eps) == {c \in BagToSet(calls) : c.ep \in eps}

\* C11: in the album branch, when the album detail call of the request is
\* answered 404, the response is an error of status 404 and neither the
\* listing of the album's tracks nor a track detail call was issued
C11_AlbumDetail404 ==
    (body.json /\ Branch(body.url) = "album" /\ failedIn = "POST" /\ firstFailure.status = 404)
        => /\ pc = "done"
           /\ response.status = 404
           /\ ErrorOnly(response)
           /\ IssuedTo({"albumTracks", "track"}) = {}
           /\ tA = IdleA

C11_Witness ==
    /\ Branch(body.url) = "album" /\ failedIn = "POST" /\ firstFailure.status = 404
    /\ pc = "done" /\ response.status = 404
    /\ IssuedTo({"album"}) # {}

\* C12: in the track branch, when the track the provider returned names no
\* album, the response is 404 "Track album information not found" and neither
\* getAlbumTracks nor getArtistTopTracks was started
C12_NoAlbumIs404 ==
    (body.json /\ Branch(body.url) = "track" /\ track # NoTrack /\ track.album = NoAlbum)
        => /\ pc = "done"
           /\ response = ErrorJson("Track album information not found", 404)
           /\ tA = IdleA /\ tT = IdleT
           /\ IssuedTo({"album", "albumTracks", "artist", "search"}) = {}

C12_Witness ==
    /\ Branch(body.url) = "track" /\ world.variant = "noAlbum"
    /\ track # NoTrack /\ track.album = NoAlbum
    /\ response.status = 404 /\ response.body.error = "Track album information not found"
    /\ IssuedTo({"track"}) # {}

\* the pc at which POST awaits the first call of the branch of a kind
BranchPc(kind) ==
    CASE kind = "track" -> "getTrack"
      [] kind = "album" -> "albumDetail"
      [] kind = "artist" -> "artistAll"

\* POST classified the url as (kind, id): it took the branch of the kind and
\* issued that branch's first call for the id
ClassifiedAs(kind, id) ==
    /\ pc = BranchPc(kind)
    /\ IssuedTo(Kinds) = {Call(kind, id, 0)}

\* C13: a url of the form .../track/{id} is classified as the track {id},
\* whatever follows the id (a slash, query parameters, a fragment, also when
\* these contain an album/ or artist/ segment)
C13_TrackUrlIsTrack ==
    \A p \in UrlPrefixes, i \in UrlIds, x \in UrlSuffixes :
        (body.url = UrlString(p \o Str_track \o i \o x) /\ accessToken = Token)
            => ClassifiedAs("track", i)

\* C14: the url handleResultClick builds from a kind and an id is classified
\* by POST as that kind and that id
C14_ResultUrlRoundTrip ==
    \A k \in Kinds, i \in UrlIds :
        (body.url = UrlString(ResultUrl(k, i)) /\ accessToken = Token)
            => ClassifiedAs(k, i)

C14_Witness ==
    /\ body.url = UrlString(ResultUrl("album", <<"a","l","b","u","m">>))
    /\ accessToken = Token
    /\ ClassifiedAs("album", <<"a","l","b","u","m">>)

\* the input holds no artist/, album/ or track/ segment followed by an id
NoSegment(query) == Branch(UrlString(query)) = "invalid"

\* C15: a non-empty input that matches no segment is handled as a free-text
\* search (the lookup endpoint is not called for it) and the only error it can
\* end in is a failure of the search itself
C15_UnmatchedIsSearch ==
    (~ui.timer /\ Trim(ui.searchQuery) # <<>> /\ NoSegment(ui.searchQuery))
        => /\ pc = "idle"
           /\ searchReq.pc # "idle"
           /\ (ui.error # "" => searchReq.response.status \notin {0, 200})

\* C17: without credentials no upstream call is issued, and a lookup or a
\* search that has returned has returned an error
C17_NoCredentialsNoCalls ==
    ~cfg => /\ calls = EmptyBag
            /\ (pc = "done" => response.status # 200 /\ ErrorOnly(response))
            /\ (searchReq.pc = "done" => searchReq.response.status # 200
                                         /\ searchReq.response.error # "")

\* C16: a successful response holds exactly one of the keys track, album and
\* artist, the one of the branch taken; a track response holds none of album,
\* artist, topTracks, an album response holds album and albumTracks only, an
\* artist response holds artist and topTracks only
C16_KeysMatchKind ==
    Succeeded =>
        LET keys == response.body.keys
        IN /\ keys \cap Kinds = {Branch(body.url)}
           /\ "track" \in keys => keys \cap {"album", "artist", "topTracks"} = {}
           /\ "album" \in keys => keys = {"album", "albumTracks"}
           /\ "artist" \in keys => keys = {"artist", "topTracks"}

C16_Witness ==
    /\ Succeeded
    /\ Branch(body.url) = "album"
    /\ response.body.keys = {"album", "albumTracks"}
    /\ response.body.album = ProviderAlbum(world)

\* a track of higher popularity stands before every track of lower popularity
MorePopularFirst(list) ==
    \A i, j \in DOMAIN list : list[i].popularity > list[j].popularity => i < j

\* C18: in every collection a resolver returns and in every collection of a
\* successful response, a track with higher popularity than another has the
\* smaller position
C18_MorePopularFirst ==
    /\ tA.pc = "ok" => MorePopularFirst(tA.value)
    /\ tT.pc = "ok" => MorePopularFirst(tT.value)
    /\ Succeeded => /\ MorePopularFirst(response.body.albumTracks)
                    /\ MorePopularFirst(response.body.topTracks)
                    /\ MorePopularFirst(response.body.artistTopTracks)

\* the provider listed a less popular track before a more popular one
C18_Witness ==
    /\ Succeeded
    /\ world.S = 3
    /\ Len(response.body.albumTracks) = 3
    /\ Popularity(1) < Popularity(2)
    /\ response.body.albumTracks[1].id = Tid(2)
    /\ response.body.albumTracks[1].popularity > response.body.albumTracks[3].popularity

\* what the provider's data make of the i-th stub of the album, whenever the
\* calls for it return
StubResult(w, i) ==
    LET raw == ProviderTrack(w, ProviderAlbumPage(w, 0).items[i].id)
        alb == IF raw.album # NoAlbum THEN ProviderAlbum(w) ELSE NoAlbum
    IN WithAlbumImages(ProcessedTrack(raw, alb), ProviderAlbum(w).images)

\* C19: the list getAlbumTracks returns is a function of what the provider
\* holds: every callback's result stands at its stub's place in whatever order
\* the calls return, and the returned list is the stable descending sort of
\* the results in stub order, so two resolutions against the same provider
\* data return the same list in the same order
C19_OrderIndependent ==
    /\ \A i \in DOMAIN tA.subs : tA.subs[i] = "done" => tA.tracks[i] = StubResult(world, i)
    /\ tA.pc = "ok" => tA.value = SortByPopularity([i \in 1..world.S |-> StubResult(world, i)])

\* the callback of the last stub returned before the callback of the first,
\* and two tracks of the album have the same popularity
C19_Witness ==
    /\ world.S = 3
    /\ Popularity(1) = Popularity(3)
    /\ tA.pc = "fanout"
    /\ tA.subs[3] = "done" /\ tA.subs[1] # "done"
    /\ tA.tracks[3].id = Tid(3)

\* C20: in the track branch, getArtistTopTracks runs only for a track whose
\* album has one track in total: for any other track it is never started, no
\* artist or search call is issued, and the response does not come from a
\* failure of such a call
C20_TopTracksOnlyForSingles ==
    (body.json /\ Branch(body.url) = "track" /\ track # NoTrack
               /\ track.album # NoAlbum /\ ~IsSingle(track))
        => /\ tT = IdleT
           /\ IssuedTo({"artist", "search"}) = {}
           /\ failedIn # "getArtistTopTracks"

----------------------------------------------------------------------------

LookupsInFlight == {r \in ui.awaits : r.kind = "lookup"}

\* C21: a lookup still in flight when a later lookup is sent is not aborted,
\* and once no lookup is in flight the result the page shows is that of the
\* latest sent of the lookups that returned a result, never an earlier one's
C21_StaleLookupDiscarded ==
    (LookupsInFlight = {} /\ ui.data # NoData) => ui.data.request = ui.okLookup

\* tracks of equal popularity stand in result in the order of places they
\* have in source
TiesInOrderOf(result, source) ==
    \A i, j \in DOMAIN result :
        (i < j /\ result[i].popularity = result[j].popularity)
            => \E p \in DOMAIN source :
                  /\ source[p].id = result[i].id
                  /\ \E q \in (p + 1)..Len(source) : source[q].id = result[j].id

\* C22: in the list getAlbumTracks returns, tracks of equal popularity stand in
\* the order in which the provider listed the album's tracks, whatever the
\* order in which the per-track calls returned; in the list getArtistTopTracks
\* returns they stand in the order of the provider's search results
C22_TiesInProviderOrder ==
    /\ tA.pc = "ok" => TiesInOrderOf(tA.value, tA.allTracks)
    /\ tT.pc = "ok" => TiesInOrderOf(tT.value, tT.primaryArtistTracks)

\* the album's first and third track have the same popularity, lower than the second's
C22_Witness ==
    /\ tA.pc = "ok"
    /\ world.S = 3
    /\ tA.value[2].popularity = tA.value[3].popularity
    /\ tA.value[2].id = Tid(1) /\ tA.value[3].id = Tid(3)
    /\ tA.allTracks[1].id = Tid(1) /\ tA.allTracks[3].id = Tid(3)

\* how many tracks of list are more popular than m
MorePopularThan(list, m) == Cardinality({p \in DOMAIN list : list[p].popularity > m})

\* C23: when getArtistTopTracks accumulated more than 100 primary-artist
\* tracks it returns 100 of them, and every accumulated track more popular
\* than the least popular returned track is among the returned ones
C23_TopHundredAfterSort ==
    (tT.pc = "ok" /\ Len(tT.primaryArtistTracks) > TopTracksCap)
        => /\ Len(tT.value) = TopTracksCap
           /\ \A k \in DOMAIN tT.value :
                 \E p \in DOMAIN tT.primaryArtistTracks : tT.primaryArtistTracks[p].id = tT.value[k].id
           /\ LET least == tT.value[TopTracksCap].popularity
              IN MorePopularThan(tT.primaryArtistTracks, least) = MorePopularThan(tT.value, least)

\* a track accumulated after the hundredth is returned, and a track among the
\* first hundred accumulated is left out
C23_Witness ==
    /\ tT.pc = "ok"
    /\ Len(tT.primaryArtistTracks) > TopTracksCap
    /\ \E p \in (TopTracksCap + 1)..Len(tT.primaryArtistTracks) :
          \E k \in DOMAIN tT.value : tT.value[k].id = tT.primaryArtistTracks[p].id
    /\ \E p \in 1..TopTracksCap :
          \A k \in DOMAIN tT.value : tT.value[k].id # tT.primaryArtistTracks[p].id

CatalogCalls == {c \in BagToSet(calls) : c.ep # "token"}

C25_NoArtistIs404 ==
    (body.json /\ Branch(body.url) = "track" /\ track # NoTrack /\ track.album # NoAlbum
               /\ (track.artists = <<>> \/ track.artists[1].id = <<>>))
        => /\ pc = "done"
           /\ response = ErrorJson("Artist information not found", 404)
           /\ tA = IdleA /\ tT = IdleT

\* the kind of highest priority among the kinds of ks: artist, then album, then track
TopKind(ks) ==
    LET range == {ks[i] : i \in DOMAIN ks}
    IN IF "artist" \in range THEN "artist"
       ELSE IF "album" \in range THEN "album"
       ELSE "track"

\* C26: a url with segments of several kinds is classified as artist when an
\* artist segment occurs in it, else as album when an album segment occurs,
\* else as track, with the id of that segment, wherever in the string the
\* segments stand
C26_ClassificationPriority ==
    \A ks \in KindOrders, sep \in Separators :
        (body.url = UrlString(SegmentsUrl(ks, sep)) /\ accessToken # NoToken)
            => ClassifiedAs(TopKind(ks), SegmentId(TopKind(ks)))

\* the artist segment stands last, after a track and an album segment
C26_Witness ==
    /\ body.url = UrlString(SegmentsUrl(<<"track", "album", "artist">>, <<"/">>))
    /\ accessToken # NoToken
    /\ ClassifiedAs("artist", ArtistId)

\* C27: the loading flag of the page is set whenever a lookup, sent by
\* debouncedSearch or by handleResultClick, is in flight
C27_LoadingWhileInFlight == LookupsInFlight # {} => ui.loading

\* a lookup or a search returns a result in this step
RequestSucceeds ==
    \E r \in ui.awaits : UI_LookupReturns(r, "ok") \/ UI_SearchReturns(r, "ok")

\* C28: when a lookup or a search returns a result, the page shows no error
\* message afterwards
C28_NoErrorAfterSuccess == [][RequestSucceeds => ui'.error = ""]_vars

\* C29: the page never holds a lookup result and search results at once
C29_DataOrResults == ~(ui.data # NoData /\ ui.searchResults # NoResults)

\* the result of a lookup sent by a click on a search result is shown, and
\* the search results the click was made on are gone
C29_Witness ==
    /\ ui.data # NoData
    /\ ui.data.url = ResultUrl("artist", ArtistId)
    /\ ui.data.request = 2 /\ ui.sent = 2
    /\ ui.searchResults = NoResults
    /\ ui.searchQuery = <<"h","e","y">>

\* C30: the list getArtistTopTracks returns contains no track id twice,
\* whatever the search pages hold, pages that repeat a track included
C30_NoTrackTwice == tT.pc = "ok" => DistinctIds(tT.value)

====
